---- MODULE Spec2Model ----
(***************************************************************************)
(* Model of the iperf3 exporter probe pipeline: the probe handler of       *)
(* internal/server, the Collector of internal/collector and the            *)
(* DefaultRunner of internal/iperf, with the request parser               *)
(* (ParseProbeRequest) and the startup and shutdown of main.               *)
(*                                                                         *)
(* Conventions.  Durations are integers in milliseconds.  Strings that the *)
(* code parses (query parameters, the scrape-timeout header) are sequences *)
(* of one-character strings, so that the parsers are modelled by what they *)
(* do.  Floating point observations of the iperf3 report are small         *)
(* naturals.  Every goroutine (Procs) performs one Collect: either called  *)
(* directly on the shared Collector (id 0), or through probeHandler, which *)
(* builds a Collector of its own (id = the goroutine).                     *)
(***************************************************************************)
EXTENDS Integers, Sequences, FiniteSets, TLC

\* ------------------------------------------------------------------ bounds
NProcs == 2

\* Longest bitrate parameter of BitrateSpec.
MaxBitrateLen == 4

Procs == 1..NProcs

\* Collector ids: 0 is the Collector shared by direct Collect callers,
\* p is the Collector probeHandler builds for the request of goroutine p.
SharedId == 0

CollIds == {SharedId} \cup Procs

\* ------------------------------------------------------ program constants
DefaultPort == 5201

DefaultPeriodMs == 5000

FallbackTimeoutMs == 30000

ConfigTimeoutMs == 30000

StatusOK == 200

StatusBadRequest == 400

StatusInternalServerError == 500

NoHolder == 0

Nil == "nil"

\* The process has not exited.
NoExit == -1

VARIABLES
    pc,            \* position of each goroutine
    kind,          \* "none", "direct" (Collect on the shared Collector) or "scrape" (probeHandler)
    request,       \* the request a "scrape" goroutine handles
    collectors,    \* the Collectors constructed so far, by collector id
    result,        \* the iperf.Result Run returned to the goroutine's Collect
    snapshot,      \* the metrics the goroutine's Collect sent on its channel
    status,        \* HTTP status written for the goroutine's request (0: none)
    IperfErrors,   \* collector.IperfErrors (process wide counter)
    IperfDuration, \* number of observations of collector.IperfDuration
    runs,          \* number of Runner.Run invocations per goroutine
    started,       \* number of external processes started per goroutine
    cmdline,       \* argument list of the goroutine's external process
    deadlineHit,   \* the goroutine's context expired while its process ran
    sconfig,       \* the Server's config (s.config): Timeout, in milliseconds
    handler,       \* the probeHandler that handled the goroutine's request
    errors,        \* fields of the errors the handler reported, in order
    output,        \* what cmd.Output() returned to the goroutine's Run
    mainPc,        \* position of main
    sigPc,         \* position of the shutdown goroutine of main
    httpServer,    \* s.server of the Server main built, and its state
    done,          \* the done channel of main is closed
    exit           \* exit code of the process (NoExit: it runs)

\* The variables of the Server that Collect and Run leave alone.
serverVars == <<sconfig, handler, errors>>

\* The variables of main.
mainVars == <<mainPc, sigPc, httpServer, done, exit>>

\* The variables of the requests in flight.
probeVars == <<pc, kind, request, collectors, result, snapshot, status,
               IperfErrors, IperfDuration, runs, started, cmdline, deadlineHit,
               sconfig, handler, errors, output>>

vars == <<pc, kind, request, collectors, result, snapshot, status,
          IperfErrors, IperfDuration, runs, started, cmdline, deadlineHit,
          sconfig, handler, errors, output, mainPc, sigPc, httpServer, done,
          exit>>

\* ------------------------------------------------------- string parsing
Digits == {"0", "1", "2", "3", "4", "5", "6", "7", "8", "9"}

DigitVal(c) ==
    CASE c = "0" -> 0 [] c = "1" -> 1 [] c = "2" -> 2 [] c = "3" -> 3
      [] c = "4" -> 4 [] c = "5" -> 5 [] c = "6" -> 6 [] c = "7" -> 7
      [] c = "8" -> 8 [] c = "9" -> 9

DigitChar(d) ==
    CASE d = 0 -> "0" [] d = 1 -> "1" [] d = 2 -> "2" [] d = 3 -> "3"
      [] d = 4 -> "4" [] d = 5 -> "5" [] d = 6 -> "6" [] d = 7 -> "7"
      [] d = 8 -> "8" [] d = 9 -> "9"

AllDigits(s) == \A i \in 1..Len(s) : s[i] \in Digits

RECURSIVE DigitsValue(_)
DigitsValue(s) ==
    IF s = <<>> THEN 0
    ELSE 10 * DigitsValue(SubSeq(s, 1, Len(s) - 1)) + DigitVal(s[Len(s)])

\* First index >= i of s that holds no digit (Len(s) + 1 when there is none).
RECURSIVE SkipDigits(_, _)
SkipDigits(s, i) ==
    IF i <= Len(s) /\ s[i] \in Digits THEN SkipDigits(s, i + 1) ELSE i

\* strconv.Atoi on the inputs of the model: optional sign, then decimal digits.
Atoi(s) ==
    LET signed == s # <<>> /\ s[1] \in {"+", "-"}
        body   == IF signed THEN Tail(s) ELSE s
    IN  IF body = <<>> \/ ~AllDigits(body)
        THEN [ok |-> FALSE, val |-> 0]
        ELSE [ok |-> TRUE,
              val |-> IF signed /\ s[1] = "-" THEN 0 - DigitsValue(body)
                      ELSE DigitsValue(body)]

RECURSIVE NatDigits(_)
NatDigits(n) ==
    IF n < 10 THEN <<DigitChar(n)>>
    ELSE Append(NatDigits(n \div 10), DigitChar(n % 10))

\* strconv.Itoa
Itoa(n) == IF n < 0 THEN <<"-">> \o NatDigits(0 - n) ELSE NatDigits(n)

\* strconv.ParseBool: the accepted spellings.
BoolTrue ==
    { <<"1">>, <<"t">>, <<"T">>, <<"t", "r", "u", "e">>,
      <<"T", "R", "U", "E">>, <<"T", "r", "u", "e">> }

BoolFalse ==
    { <<"0">>, <<"f">>, <<"F">>, <<"f", "a", "l", "s", "e">>,
      <<"F", "A", "L", "S", "E">>, <<"F", "a", "l", "s", "e">> }

ParseBool(s) ==
    IF s \in BoolTrue THEN [ok |-> TRUE, val |-> TRUE]
    ELSE IF s \in BoolFalse THEN [ok |-> TRUE, val |-> FALSE]
    ELSE [ok |-> FALSE, val |-> FALSE]

\* Integer division rounding toward zero (Go's float to integer conversion).
TruncDiv(a, b) == IF a >= 0 THEN a \div b ELSE 0 - ((0 - a) \div b)

\* strconv.ParseFloat(v, 64) on decimal inputs "[+-]digits[.digits]" with at
\* most three fraction digits; the value is returned in thousandths.
ParseFloat(s) ==
    LET signed == s # <<>> /\ s[1] \in {"+", "-"}
        body   == IF signed THEN Tail(s) ELSE s
        i      == SkipDigits(body, 1)
        int    == SubSeq(body, 1, i - 1)
        hasDot == i <= Len(body) /\ body[i] = "."
        frac   == IF hasDot THEN SubSeq(body, i + 1, Len(body)) ELSE <<>>
        pad    == frac \o SubSeq(<<"0", "0", "0">>, 1, 3 - Len(frac))
        wellFormed ==
            /\ int \o frac # <<>>
            /\ (hasDot \/ i = Len(body) + 1)
            /\ AllDigits(frac)
            /\ Len(frac) <= 3
        mag    == 1000 * DigitsValue(int) + DigitsValue(pad)
    IN  IF ~wellFormed THEN [ok |-> FALSE, val |-> 0]
        ELSE [ok |-> TRUE,
              val |-> IF signed /\ s[1] = "-" THEN 0 - mag ELSE mag]

\* Milliseconds of a unit of time.ParseDuration (0: no such unit).
UnitMs(u) ==
    CASE u = <<"m", "s">> -> 1
      [] u = <<"s">> -> 1000
      [] u = <<"m">> -> 60000
      [] u = <<"h">> -> 3600000
      [] OTHER -> 0

\* First index >= i of s that holds a digit (Len(s) + 1 when there is none).
RECURSIVE SkipUnit(_, _)
SkipUnit(s, i) ==
    IF i <= Len(s) /\ s[i] \notin Digits THEN SkipUnit(s, i + 1) ELSE i

\* The segments "digits unit" of a duration string from index i on.
RECURSIVE DurationSegments(_, _)
DurationSegments(s, i) ==
    IF i > Len(s) THEN [ok |-> TRUE, val |-> 0]
    ELSE LET j    == SkipDigits(s, i)
             k    == SkipUnit(s, j)
             unit == UnitMs(SubSeq(s, j, k - 1))
             rest == DurationSegments(s, k)
         IN  IF j = i \/ unit = 0 \/ ~rest.ok
             THEN [ok |-> FALSE, val |-> 0]
             ELSE [ok |-> TRUE,
                   val |-> DigitsValue(SubSeq(s, i, j - 1)) * unit + rest.val]

\* time.ParseDuration on inputs "[+-](digits unit)+" and "0", units ms, s, m, h.
ParseDuration(s) ==
    LET signed == s # <<>> /\ s[1] \in {"+", "-"}
        body   == IF signed THEN Tail(s) ELSE s
        segs   == DurationSegments(body, 1)
    IN  IF body = <<"0">> THEN [ok |-> TRUE, val |-> 0]
        ELSE IF body = <<>> \/ ~segs.ok THEN [ok |-> FALSE, val |-> 0]
        ELSE [ok |-> TRUE,
              val |-> IF signed /\ s[1] = "-" THEN 0 - segs.val ELSE segs.val]

\* bitratePattern: ^[0-9]+(\.[0-9]+)?([KMG])?(\/[0-9]+)?$
bitratePatternMatch(s) ==
    LET i1 == SkipDigits(s, 1)
        i2 == IF i1 <= Len(s) /\ s[i1] = "." /\ SkipDigits(s, i1 + 1) > i1 + 1
              THEN SkipDigits(s, i1 + 1) ELSE i1
        i3 == IF i2 <= Len(s) /\ s[i2] \in {"K", "M", "G"} THEN i2 + 1 ELSE i2
        i4 == IF i3 <= Len(s) /\ s[i3] = "/" /\ SkipDigits(s, i3 + 1) > i3 + 1
              THEN SkipDigits(s, i3 + 1) ELSE i3
    IN  i1 > 1 /\ i4 = Len(s) + 1

\* iperf.ValidateBitrate
ValidateBitrate(bitrate) ==
    IF bitrate = <<>> THEN TRUE ELSE bitratePatternMatch(bitrate)

\* ----------------------------------------------------------- probeHandler
\* The request of the model: query parameters and the
\* X-Prometheus-Scrape-Timeout-Seconds header ("" and <<>>: absent).
Str_abc == <<"a", "b", "c">>

BaseRequest ==
    [target |-> "h", port |-> <<>>, reverse_mode |-> <<>>, udp_mode |-> <<>>,
     bitrate |-> <<>>, period |-> <<>>, header |-> <<>>]

Targets == {"", "h"}

PortParams ==
    {<<>>, Str_abc, <<"8", "0", "8", "0">>, <<"0">>, <<"7", "0", "0", "0", "0">>}

ReverseParams == {<<>>, <<"x">>, <<"t", "r", "u", "e">>}

UDPParams == {<<>>, <<"x">>, <<"t", "r", "u", "e">>}

BitrateParams ==
    {<<>>, <<"1", "0", "X">>, <<"1", "0", "M">>, <<"1", "0", "0">>}

PeriodParams == {<<>>, Str_abc, <<"4", "0", "s">>}

HeaderParams ==
    {<<>>, Str_abc, <<"5">>, <<"-", "5">>, <<"5", "0", "0">>, <<"0">>}

\* Every combination of the parameter values above.
AllRequests ==
    [target : Targets, port : PortParams, reverse_mode : ReverseParams,
     udp_mode : UDPParams, bitrate : BitrateParams, period : PeriodParams,
     header : HeaderParams]

\* The requests goroutines send in Spec: the bare request, one request per
\* rejection of the handler, and the valid requests that set parameters, ask
\* for a period above the timeout, or carry a timeout header.
Requests ==
    { BaseRequest,
      [BaseRequest EXCEPT !.target = ""],
      [BaseRequest EXCEPT !.port = Str_abc],
      [BaseRequest EXCEPT !.reverse_mode = <<"x">>],
      [BaseRequest EXCEPT !.bitrate = <<"1", "0", "X">>],
      [BaseRequest EXCEPT !.period = Str_abc],
      [BaseRequest EXCEPT !.header = Str_abc],
      [BaseRequest EXCEPT !.port = <<"8", "0", "8", "0">>,
                          !.reverse_mode = <<"t", "r", "u", "e">>,
                          !.bitrate = <<"1", "0", "M">>],
      [BaseRequest EXCEPT !.period = <<"4", "0", "s">>],
      [BaseRequest EXCEPT !.header = <<"-", "5">>] }

NoConfig ==
    [Target |-> "", Port |-> 0, Period |-> 0, Timeout |-> 0,
     ReverseMode |-> FALSE, UDPMode |-> FALSE, Bitrate |-> <<>>]

Rejected(code, field) ==
    [status |-> code, config |-> NoConfig, errors |-> <<field>>]

\* Fault: the check of the target parameter is left out.
targetMissing_Unchecked(target) == FALSE

\* if target == "" of probeHandler.
targetMissing(target) == target = ""

\* Seconds (thousandths) of the probe timeout: the header value, else the
\* configured timeout, else 30.
timeoutSeconds(headerVal, cfgTimeout) ==
    IF headerVal # 0 THEN headerVal
    ELSE IF cfgTimeout > 0 THEN cfgTimeout
    ELSE FallbackTimeoutMs

\* "Ensure run period is less than timeout": time.Duration(t*0.9) * time.Second
adjustPeriod(runPeriod, timeoutS) ==
    IF runPeriod >= timeoutS
    THEN TruncDiv(timeoutS * 9, 10000) * 1000
    ELSE runPeriod

\* probeHandler up to the construction of the Collector: the status it answers
\* with when it rejects the request (0: none), and the ProbeConfig it builds.
probeHandlerParse(r, cfgTimeout) ==
    LET port    == IF r.port # <<>> THEN Atoi(r.port) ELSE [ok |-> TRUE, val |-> 0]
        reverse == IF r.reverse_mode # <<>> THEN ParseBool(r.reverse_mode)
                   ELSE [ok |-> TRUE, val |-> FALSE]
        period  == IF r.period # <<>> THEN ParseDuration(r.period)
                   ELSE [ok |-> TRUE, val |-> 0]
        header  == IF r.header # <<>> THEN ParseFloat(r.header)
                   ELSE [ok |-> TRUE, val |-> 0]
        targetPort == IF port.val = 0 THEN DefaultPort ELSE port.val
        runPeriod  == IF period.val = 0 THEN DefaultPeriodMs ELSE period.val
        timeoutS   == timeoutSeconds(header.val, cfgTimeout)
    IN  IF targetMissing(r.target) THEN Rejected(StatusBadRequest, "target")
        ELSE IF ~port.ok THEN Rejected(StatusBadRequest, "port")
        ELSE IF ~reverse.ok THEN Rejected(StatusBadRequest, "reverse_mode")
        ELSE IF r.bitrate # <<>> /\ ~ValidateBitrate(r.bitrate)
             THEN Rejected(StatusBadRequest, "bitrate")
        ELSE IF ~period.ok THEN Rejected(StatusBadRequest, "period")
        ELSE IF ~header.ok THEN Rejected(StatusInternalServerError, "timeout")
        ELSE [status |-> 0,
              errors |-> <<>>,
              config |-> [Target      |-> r.target,
                          Port        |-> targetPort,
                          Period      |-> adjustPeriod(runPeriod, timeoutS),
                          Timeout     |-> timeoutS,
                          ReverseMode |-> reverse.val,
                          UDPMode     |-> FALSE,
                          Bitrate     |-> r.bitrate]]

\* ------------------------------------- ParseProbeRequest (request parser)
\* DefaultValues, durations in milliseconds.
DefaultValues ==
    [Port |-> 5201, Period |-> 5000, MinTimeout |-> 1000, MaxTimeout |-> 300000,
     MinPeriod |-> 100]

\* validation.ValidateDuration: the error it returns, as a sequence of fields.
ValidateDuration(field, d, min, max) ==
    IF d < min THEN <<field>>
    ELSE IF max > 0 /\ d > max THEN <<field>>
    ELSE <<>>

\* The pattern of validation.ValidateBitrate: ^\d+[KMG](/\d+)?$
validationPatternMatch(s) ==
    LET i1 == SkipDigits(s, 1)
        i2 == IF i1 <= Len(s) /\ s[i1] \in {"K", "M", "G"} THEN i1 + 1 ELSE 0
        i3 == IF i2 > 0 /\ i2 <= Len(s) /\ s[i2] = "/" /\ SkipDigits(s, i2 + 1) > i2 + 1
              THEN SkipDigits(s, i2 + 1) ELSE i2
    IN  i1 > 1 /\ i3 = Len(s) + 1

\* validation.ValidateBitrate: the error it returns, as a sequence of fields.
validationValidateBitrate(bitrate) ==
    IF bitrate = <<>> THEN <<>>
    ELSE IF ~validationPatternMatch(bitrate) THEN <<"bitrate">>
    ELSE <<>>

\* validation.ValidatePort: the error it returns, as a sequence of fields.
ValidatePort(port) ==
    IF port < 1 \/ port > 65535 THEN <<"port">> ELSE <<>>

\* ProbeRequest.Validate: the errors, and the request with its period
\* rescaled (time.Duration(float64(r.Timeout) * 0.9), whole milliseconds for
\* the timeouts of the model).
Validate(req) ==
    [errors |-> ValidateDuration("period", req.Period, DefaultValues.MinPeriod,
                                 req.Timeout)
                \o ValidateDuration("timeout", req.Timeout,
                                    DefaultValues.MinTimeout, DefaultValues.MaxTimeout),
     req    |-> IF req.Period >= req.Timeout
                THEN [req EXCEPT !.Period = TruncDiv(req.Timeout * 9, 10)]
                ELSE req]

\* ParseProbeRequest: the errors it returns (the fields of the MultiError, in
\* order; <<>>: nil) and the ProbeRequest.
ParseProbeRequest(r) ==
    LET port    == IF r.port # <<>> THEN Atoi(r.port)
                   ELSE [ok |-> TRUE, val |-> DefaultValues.Port]
        period  == IF r.period # <<>> THEN ParseDuration(r.period)
                   ELSE [ok |-> TRUE, val |-> DefaultValues.Period]
        reverse == IF r.reverse_mode # <<>> THEN ParseBool(r.reverse_mode)
                   ELSE [ok |-> TRUE, val |-> FALSE]
        header  == IF r.header # <<>> THEN ParseFloat(r.header)
                   ELSE [ok |-> TRUE, val |-> DefaultValues.MaxTimeout]
        merr    == (IF r.target = "" THEN <<"target">> ELSE <<>>)
                   \o (IF ~port.ok THEN <<"port">>
                       ELSE IF r.port # <<>> THEN ValidatePort(port.val) ELSE <<>>)
                   \o (IF ~period.ok THEN <<"period">> ELSE <<>>)
                   \o (IF ~reverse.ok THEN <<"reverse_mode">> ELSE <<>>)
                   \o validationValidateBitrate(r.bitrate)
                   \o (IF ~header.ok THEN <<"timeout">> ELSE <<>>)
        req     == [Target |-> r.target, Port |-> port.val, Period |-> period.val,
                    Timeout |-> header.val, ReverseMode |-> reverse.val,
                    Bitrate |-> r.bitrate]
    IN  IF merr # <<>> THEN [errors |-> merr, req |-> req]
        ELSE Validate(req)

\* probeHandler of the request parser's server up to the construction of the
\* Collector: the status it answers with when ParseProbeRequest returns an
\* error (0: none), the fields of the error, and the ProbeConfig it builds.
probeHandlerRequest(r) ==
    LET parsed == ParseProbeRequest(r)
    IN  IF parsed.errors # <<>>
        THEN [status |-> StatusBadRequest, config |-> NoConfig,
              errors |-> parsed.errors]
        ELSE [status |-> 0,
              errors |-> <<>>,
              config |-> [Target      |-> parsed.req.Target,
                          Port        |-> parsed.req.Port,
                          Period      |-> parsed.req.Period,
                          Timeout     |-> parsed.req.Timeout,
                          ReverseMode |-> parsed.req.ReverseMode,
                          UDPMode     |-> FALSE,
                          Bitrate     |-> parsed.req.Bitrate]]

\* ------------------------------------------------------ DefaultRunner.Run
\* rawResult.End of a parsed report; UDPInfo holds the fields Run reads.
ZeroUDP ==
    [Seconds |-> 0, Bytes |-> 0, BitsPerSecond |-> 0, JitterMs |-> 0,
     LostPackets |-> 0, Packets |-> 0, LostPercent |-> 0]

StreamUDP ==
    [Seconds |-> 3, Bytes |-> 6, BitsPerSecond |-> 7, JitterMs |-> 1,
     LostPackets |-> 2, Packets |-> 9, LostPercent |-> 3]

SumUDP ==
    [Seconds |-> 2, Bytes |-> 4, BitsPerSecond |-> 6, JitterMs |-> 2,
     LostPackets |-> 1, Packets |-> 8, LostPercent |-> 4]

ReportFull ==
    [SumSent     |-> [Seconds |-> 5, Bytes |-> 8, BitsPerSecond |-> 9, Retransmits |-> 2],
     SumReceived |-> [Seconds |-> 4, Bytes |-> 7, BitsPerSecond |-> 8],
     Streams     |-> <<[UDP |-> StreamUDP]>>,
     Sum         |-> SumUDP]

ReportNoStreams ==
    [SumSent     |-> [Seconds |-> 0, Bytes |-> 0, BitsPerSecond |-> 0, Retransmits |-> 0],
     SumReceived |-> [Seconds |-> 0, Bytes |-> 0, BitsPerSecond |-> 0],
     Streams     |-> <<>>,
     Sum         |-> ZeroUDP]

\* A report whose end.streams is empty.
ReportEmptyStreams == [ReportFull EXCEPT !.Streams = <<>>]

\* A report whose end.sum lacks the receiver's values.
ReportNoReceiver == [ReportFull EXCEPT !.Sum = ZeroUDP]

\* The reports the external process prints.
RawReports == {ReportFull, ReportEmptyStreams, ReportNoReceiver}

\* What cmd.Output() returns: the error and the bytes of stdout, which are
\* either a JSON report (json, with its fields in raw) or text that
\* json.Unmarshal rejects.
Garbage(e) == [err |-> e, json |-> FALSE, raw |-> ReportNoStreams]

\* The goroutine's Run has not called cmd.Output().
NoOutput == Garbage("not called")

\* Fault: the command is not bound to the context (exec.Command in place of
\* exec.CommandContext), so it runs to its end and prints its report.
Killed_NotBound == [err |-> Nil, json |-> TRUE, raw |-> ReportFull]

\* Output of a command exec killed because the context was done.
Killed == Garbage("signal: killed")

ContextExpired == Garbage("context deadline exceeded")

Outputs ==
    {Garbage(e) : e \in {"executable file not found", "exit status 1", Nil}}
    \cup {[err |-> Nil, json |-> TRUE, raw |-> raw] : raw \in RawReports}

\* Result{Success: false}
ZeroResult ==
    [Success |-> FALSE,
     SentSeconds |-> 0, SentBytes |-> 0, SentBitsPerSecond |-> 0,
     ReceivedSeconds |-> 0, ReceivedBytes |-> 0, ReceivedBitsPerSecond |-> 0,
     Retransmits |-> 0,
     SentPackets |-> 0, SentJitter |-> 0, SentLostPackets |-> 0, SentLostPercent |-> 0,
     ReceivedPackets |-> 0, ReceivedJitter |-> 0, ReceivedLostPackets |-> 0,
     ReceivedLostPercent |-> 0,
     UDPMode |-> FALSE, Error |-> Nil]

\* Fault: a failure path returns without setting the Error.
RunFailed_NoError(cfg, error) == ZeroResult

\* A return on a failure path: the result of line 355 with its Error set.
RunFailed(cfg, error) == [ZeroResult EXCEPT !.Error = error]

\* The early return of Run on an invalid bitrate.
bitrateInvalid(cfg) == cfg.Bitrate # <<>> /\ ~ValidateBitrate(cfg.Bitrate)

\* cfg.Period.Seconds() formatted with 'f', 0: rounded to the nearest whole
\* second, ties to even.
FormatSeconds(ms) ==
    LET mag  == IF ms < 0 THEN 0 - ms ELSE ms
        q    == mag \div 1000
        r    == mag % 1000
        n    == IF r > 500 \/ (r = 500 /\ q % 2 = 1) THEN q + 1 ELSE q
    IN  IF ms < 0 /\ n > 0 THEN <<"-">> \o NatDigits(n) ELSE NatDigits(n)

\* Fault: no default bitrate is injected in UDP mode.
iperfArgs_NoDefaultBitrate(cfg) ==
    << <<"-J">>, <<"-t">>, FormatSeconds(cfg.Period), <<"-c">>, cfg.Target,
       <<"-p">>, Itoa(cfg.Port) >>
    \o (IF cfg.ReverseMode THEN << <<"-R">> >> ELSE <<>>)
    \o (IF cfg.UDPMode THEN << <<"-u">> >> ELSE <<>>)
    \o (IF cfg.Bitrate # <<>> THEN << <<"-b">>, cfg.Bitrate >> ELSE <<>>)

\* The argument list of the command Run builds.
iperfArgs(cfg) ==
    << <<"-J">>, <<"-t">>, FormatSeconds(cfg.Period), <<"-c">>, cfg.Target,
       <<"-p">>, Itoa(cfg.Port) >>
    \o (IF cfg.ReverseMode THEN << <<"-R">> >> ELSE <<>>)
    \o (IF cfg.UDPMode THEN << <<"-u">> >> ELSE <<>>)
    \o (IF cfg.UDPMode
        THEN IF cfg.Bitrate # <<>> THEN << <<"-b">>, cfg.Bitrate >>
             ELSE << <<"-b">>, <<"1", "M">> >>
        ELSE IF cfg.Bitrate # <<>> THEN << <<"-b">>, cfg.Bitrate >>
        ELSE <<>>)

\* Fault: with no stream the sender's values are read from end.sum.
udpSender_FallsBackToSum(raw) ==
    IF Len(raw.Streams) > 0 THEN raw.Streams[1].UDP ELSE raw.Sum

\* Fault: the sender's values are read from end.sum.
udpSender_FromSum(raw) == raw.Sum

\* The block the sender fields of a UDP Result are read from: streams[0].udp
\* behind the boundary check, no block (the fields stay zero) without a stream.
udpSender(raw) ==
    IF Len(raw.Streams) > 0 THEN raw.Streams[1].UDP ELSE ZeroUDP

\* Fault: Run calls Output again when the first call returned.
outputCalls_Twice(cfg) == 2

\* The calls of cmd.Output() in one Run that passed the bitrate check: one,
\* outside any loop.
outputCalls(cfg) == 1

\* The mapping of a parsed report onto the Result.
RunParsed(cfg, raw) ==
    IF ~cfg.UDPMode
    THEN [ZeroResult EXCEPT
            !.UDPMode = cfg.UDPMode, !.Success = TRUE,
            !.SentSeconds = raw.SumSent.Seconds,
            !.SentBytes = raw.SumSent.Bytes,
            !.SentBitsPerSecond = raw.SumSent.BitsPerSecond,
            !.ReceivedSeconds = raw.SumReceived.Seconds,
            !.ReceivedBytes = raw.SumReceived.Bytes,
            !.ReceivedBitsPerSecond = raw.SumReceived.BitsPerSecond,
            !.Retransmits = raw.SumSent.Retransmits]
    ELSE LET sender == udpSender(raw)
         IN  [ZeroResult EXCEPT
                !.UDPMode = cfg.UDPMode, !.Success = TRUE,
                !.SentSeconds = sender.Seconds,
                !.SentBytes = sender.Bytes,
                !.SentBitsPerSecond = sender.BitsPerSecond,
                !.SentPackets = sender.Packets,
                !.SentJitter = sender.JitterMs,
                !.SentLostPackets = sender.LostPackets,
                !.SentLostPercent = sender.LostPercent,
                !.ReceivedSeconds = raw.Sum.Seconds,
                !.ReceivedBytes = raw.Sum.Bytes,
                !.ReceivedBitsPerSecond = raw.Sum.BitsPerSecond,
                !.ReceivedPackets = raw.Sum.Packets,
                !.ReceivedJitter = raw.Sum.JitterMs,
                !.ReceivedLostPackets = raw.Sum.LostPackets,
                !.ReceivedLostPercent = raw.Sum.LostPercent]

\* Run from cmd.Output() on: o is what Output returned.
RunFinish(cfg, o) ==
    IF o.err # Nil THEN RunFailed(cfg, "iperf3 execution failed")
    ELSE IF ~o.json THEN RunFailed(cfg, "failed to parse iperf3 result")
    ELSE RunParsed(cfg, o.raw)

\* --------------------------------------------------------------- Collector
NewCollectorWithRunner(config) ==
    [target  |-> config.Target,
     port    |-> config.Port,
     period  |-> config.Period,
     timeout |-> config.Timeout,
     mutex   |-> NoHolder,
     reverse |-> config.ReverseMode,
     udpMode |-> config.UDPMode,
     bitrate |-> config.Bitrate]

\* The iperf.Config Collect passes to Run.
RunConfig(c) ==
    [Target |-> c.target, Port |-> c.port, Period |-> c.period,
     Timeout |-> c.timeout, ReverseMode |-> c.reverse, UDPMode |-> c.udpMode,
     Bitrate |-> c.bitrate]

CommonNames ==
    <<"iperf3_up", "iperf3_sent_seconds", "iperf3_sent_bytes",
      "iperf3_received_seconds", "iperf3_received_bytes">>

TCPNames == <<"iperf3_retransmits">>

UDPNames ==
    <<"iperf3_sent_packets", "iperf3_sent_jitter_ms", "iperf3_sent_lost_packets",
      "iperf3_sent_lost_percent", "iperf3_received_packets",
      "iperf3_received_jitter_ms", "iperf3_received_lost_packets",
      "iperf3_received_lost_percent">>

\* Fault: Describe leaves out the retransmits descriptor.
Describe_NoRetransmits(c) == CommonNames \o UDPNames

\* The descriptors Describe sends.
Describe(c) == CommonNames \o TCPNames \o UDPNames

\* Fault: the port label is the default port, not the Collector's.
Metric_DefaultPort(c, name, value) ==
    [name |-> name, value |-> value,
     labels |-> [target |-> c.target, port |-> Itoa(DefaultPort)]]

\* prometheus.MustNewConstMetric(desc, GaugeValue, value, labelValues...)
Metric(c, name, value) ==
    [name |-> name, value |-> value,
     labels |-> [target |-> c.target, port |-> Itoa(c.port)]]

\* Whether Collect emits the TCP metric or the UDP metrics.
emitsUDP(res) == res.UDPMode

\* The metrics of the failure branch of Collect.
CollectFailure(c, res) ==
    LET names == CommonNames \o (IF ~emitsUDP(res) THEN TCPNames ELSE UDPNames)
    IN  [i \in 1..Len(names) |-> Metric(c, names[i], 0)]

\* The metrics of the success branch of Collect.
CollectSuccess(c, res) ==
    << Metric(c, "iperf3_up", 1),
       Metric(c, "iperf3_sent_seconds", res.SentSeconds),
       Metric(c, "iperf3_sent_bytes", res.SentBytes),
       Metric(c, "iperf3_received_seconds", res.ReceivedSeconds),
       Metric(c, "iperf3_received_bytes", res.ReceivedBytes) >>
    \o (IF ~emitsUDP(res)
        THEN << Metric(c, "iperf3_retransmits", res.Retransmits) >>
        ELSE <<>>)
    \o (IF emitsUDP(res)
        THEN << Metric(c, "iperf3_sent_packets", res.SentPackets),
                Metric(c, "iperf3_sent_jitter_ms", res.SentJitter),
                Metric(c, "iperf3_sent_lost_packets", res.SentLostPackets),
                Metric(c, "iperf3_sent_lost_percent", res.SentLostPercent),
                Metric(c, "iperf3_received_packets", res.ReceivedPackets),
                Metric(c, "iperf3_received_jitter_ms", res.ReceivedJitter),
                Metric(c, "iperf3_received_lost_packets", res.ReceivedLostPackets),
                Metric(c, "iperf3_received_lost_percent", res.ReceivedLostPercent) >>
        ELSE <<>>)

\* What Collect sends on its channel for the Result of Run.
CollectMetrics(c, res) ==
    IF res.Success THEN CollectSuccess(c, res) ELSE CollectFailure(c, res)

\* Fault: IperfErrors.Inc() runs on both branches.
CollectErrors_BothBranches(res) == 1

\* IperfErrors.Inc() of the failure branch.
CollectErrors(res) == IF res.Success THEN 0 ELSE 1

Range(seq) == {seq[i] : i \in DOMAIN seq}

NamesOf(metrics) == {metrics[i].name : i \in DOMAIN metrics}

\* The status promhttp.HandlerFor(registry, HandlerOpts{}) answers with: the
\* registry's Gather fails, and the handler answers 500, when a collected
\* metric has a descriptor Describe did not send or is collected twice.
GatherStatus(c, metrics) ==
    IF /\ NamesOf(metrics) \subseteq Range(Describe(c))
       /\ Cardinality(NamesOf(metrics)) = Len(metrics)
    THEN StatusOK
    ELSE StatusInternalServerError

\* ------------------------------------------------------------------- state
\* main is inside srv.Start with the server listening, the shutdown goroutine
\* waits for a signal.
MainServing ==
    /\ mainPc = "serve"
    /\ sigPc = "wait"
    /\ httpServer = "listening"
    /\ done = FALSE
    /\ exit = NoExit

\* The ProbeConfigs the shared Collector is constructed with.
SharedConfigs ==
    {[Target |-> "h", Port |-> DefaultPort, Period |-> DefaultPeriodMs,
      Timeout |-> 10000, ReverseMode |-> FALSE, UDPMode |-> u, Bitrate |-> b] :
        u \in BOOLEAN, b \in {<<>>, <<"1", "0", "X">>}}

Init ==
    /\ pc = [p \in Procs |-> "idle"]
    /\ kind = [p \in Procs |-> "none"]
    /\ request = [p \in Procs |-> BaseRequest]
    /\ \E config \in SharedConfigs :
           collectors = (SharedId :> NewCollectorWithRunner(config))
    /\ result = [p \in Procs |-> ZeroResult]
    /\ snapshot = [p \in Procs |-> <<>>]
    /\ status = [p \in Procs |-> 0]
    /\ IperfErrors = 0
    /\ IperfDuration = 0
    /\ runs = [p \in Procs |-> 0]
    /\ started = [p \in Procs |-> 0]
    /\ cmdline = [p \in Procs |-> <<>>]
    /\ deadlineHit = [p \in Procs |-> FALSE]
    /\ sconfig = [Timeout |-> ConfigTimeoutMs]
    /\ handler = [p \in Procs |-> "none"]
    /\ errors = [p \in Procs |-> <<>>]
    /\ output = [p \in Procs |-> NoOutput]
    /\ MainServing

\* The collector id of the Collector goroutine p collects from.
Cid(p) == IF kind[p] = "direct" THEN SharedId ELSE p

\* Fault: Lock returns although the mutex is held.
mutexFree_Always(c) == TRUE

\* c.mutex.Lock() can return: nobody holds the mutex.
mutexFree(c) == c.mutex = NoHolder

\* Fault: Collect returns without unlocking.
mutexUnlock_Missing(c) == c

\* The deferred c.mutex.Unlock().
mutexUnlock(c) == [c EXCEPT !.mutex = NoHolder]

\* ----------------------------------------------------------------- actions
\* A caller (a registry's Gather, a test goroutine) calls Collect on the
\* shared Collector.
CollectCall(p) ==
    /\ pc[p] = "idle"
    /\ kind' = [kind EXCEPT ![p] = "direct"]
    /\ pc' = [pc EXCEPT ![p] = "start"]
    /\ UNCHANGED <<request, collectors, result, snapshot, status, IperfErrors,
                   IperfDuration, runs, started, cmdline, deadlineHit, output>>
    /\ UNCHANGED serverVars
    /\ UNCHANGED mainVars

\* probeHandler from its entry to registry.MustRegister(c): it answers with an
\* error status and counts an error, or constructs the Collector of the request.
probeHandler(p) ==
    /\ pc[p] = "idle"
    /\ \E r \in Requests :
         LET parsed == probeHandlerParse(r, sconfig.Timeout)
         IN  /\ kind' = [kind EXCEPT ![p] = "scrape"]
             /\ request' = [request EXCEPT ![p] = r]
             /\ handler' = [handler EXCEPT ![p] = "inline"]
             /\ errors' = [errors EXCEPT ![p] = parsed.errors]
             /\ IF parsed.status # 0
                THEN /\ status' = [status EXCEPT ![p] = parsed.status]
                     /\ IperfErrors' = IperfErrors + 1
                     /\ pc' = [pc EXCEPT ![p] = "done"]
                     /\ UNCHANGED collectors
                ELSE /\ collectors' =
                            collectors @@ (p :> NewCollectorWithRunner(parsed.config))
                     /\ pc' = [pc EXCEPT ![p] = "start"]
                     /\ UNCHANGED <<status, IperfErrors>>
    /\ UNCHANGED <<result, snapshot, IperfDuration, runs, started, cmdline,
                   deadlineHit, sconfig, output>>
    /\ UNCHANGED mainVars

\* Collect: c.mutex.Lock() returns.
CollectLock(p) ==
    /\ pc[p] = "start"
    /\ mutexFree(collectors[Cid(p)])
    /\ collectors' = [collectors EXCEPT ![Cid(p)].mutex = p]
    /\ pc' = [pc EXCEPT ![p] = "locked"]
    /\ UNCHANGED <<kind, request, result, snapshot, status, IperfErrors, IperfDuration,
                   runs, started, cmdline, deadlineHit, output>>
    /\ UNCHANGED serverVars
    /\ UNCHANGED mainVars

\* Collect calls Run, which returns at once on an invalid bitrate, and
\* otherwise builds the command and starts it.  A context whose timeout is not
\* positive is done before the command starts: Output returns the context's
\* error and no process is started.
RunStart(p) ==
    LET cfg == RunConfig(collectors[Cid(p)])
    IN  /\ pc[p] = "locked"
        /\ runs' = [runs EXCEPT ![p] = @ + 1]
        /\ IF bitrateInvalid(cfg)
           THEN /\ result' = [result EXCEPT ![p] = RunFailed(cfg, "invalid bitrate format")]
                /\ pc' = [pc EXCEPT ![p] = "ran"]
                /\ UNCHANGED <<started, cmdline, output>>
           ELSE IF cfg.Timeout <= 0
           THEN /\ result' = [result EXCEPT ![p] = RunFinish(cfg, ContextExpired)]
                /\ output' = [output EXCEPT ![p] = ContextExpired]
                /\ pc' = [pc EXCEPT ![p] = "ran"]
                /\ cmdline' = [cmdline EXCEPT ![p] = iperfArgs(cfg)]
                /\ UNCHANGED started
           ELSE /\ started' = [started EXCEPT ![p] = @ + outputCalls(cfg)]
                /\ cmdline' = [cmdline EXCEPT ![p] = iperfArgs(cfg)]
                /\ pc' = [pc EXCEPT ![p] = "running"]
                /\ UNCHANGED <<result, output>>
        /\ UNCHANGED <<kind, request, collectors, snapshot, status, IperfErrors,
                       IperfDuration, deadlineHit>>
        /\ UNCHANGED serverVars
        /\ UNCHANGED mainVars

\* The external process ends by itself (or could not be executed): Output
\* returns and Run builds its Result.
ProcessExit(p) ==
    /\ pc[p] = "running"
    /\ \E o \in Outputs :
         /\ result' = [result EXCEPT ![p] = RunFinish(RunConfig(collectors[Cid(p)]), o)]
         /\ output' = [output EXCEPT ![p] = o]
    /\ pc' = [pc EXCEPT ![p] = "ran"]
    /\ UNCHANGED <<kind, request, collectors, snapshot, status, IperfErrors,
                   IperfDuration, runs, started, cmdline, deadlineHit>>
    /\ UNCHANGED serverVars
    /\ UNCHANGED mainVars

\* The context of Collect expires while the process runs: exec kills the
\* process, Output returns the error and Run builds its Result.
DeadlineKill(p) ==
    /\ pc[p] = "running"
    /\ deadlineHit' = [deadlineHit EXCEPT ![p] = TRUE]
    /\ result' = [result EXCEPT ![p] = RunFinish(RunConfig(collectors[Cid(p)]), Killed)]
    /\ output' = [output EXCEPT ![p] = Killed]
    /\ pc' = [pc EXCEPT ![p] = "ran"]
    /\ UNCHANGED <<kind, request, collectors, snapshot, status, IperfErrors,
                   IperfDuration, runs, started, cmdline>>
    /\ UNCHANGED serverVars
    /\ UNCHANGED mainVars

\* Collect from the return of Run on: it sends the metrics, counts a failure
\* and returns, which runs the deferred Unlock.
CollectReturn(p) ==
    LET c == collectors[Cid(p)]
    IN  /\ pc[p] = "ran"
        /\ snapshot' = [snapshot EXCEPT ![p] = CollectMetrics(c, result[p])]
        /\ IperfErrors' = IperfErrors + CollectErrors(result[p])
        /\ collectors' = [collectors EXCEPT ![Cid(p)] = mutexUnlock(c)]
        /\ pc' = [pc EXCEPT ![p] = IF kind[p] = "scrape" THEN "collected" ELSE "done"]
        /\ UNCHANGED <<kind, request, result, status, IperfDuration, runs, started,
                       cmdline, deadlineHit, output>>
        /\ UNCHANGED serverVars
        /\ UNCHANGED mainVars

\* probeHandler after Collect returned: the promhttp handler writes the
\* response and the handler observes the duration.
probeHandlerFinish(p) ==
    /\ pc[p] = "collected"
    /\ status' = [status EXCEPT ![p] = GatherStatus(collectors[Cid(p)], snapshot[p])]
    /\ IperfDuration' = IperfDuration + 1
    /\ pc' = [pc EXCEPT ![p] = "done"]
    /\ UNCHANGED <<kind, request, collectors, result, snapshot, IperfErrors, runs,
                   started, cmdline, deadlineHit, output>>
    /\ UNCHANGED serverVars
    /\ UNCHANGED mainVars

Next ==
    \E p \in Procs :
        \/ CollectCall(p)
        \/ probeHandler(p)
        \/ CollectLock(p)
        \/ RunStart(p)
        \/ ProcessExit(p)
        \/ DeadlineKill(p)
        \/ CollectReturn(p)
        \/ probeHandlerFinish(p)

Spec == Init /\ [][Next]_vars

\* Concurrent Collect calls on the shared Collector alone, under the
\* scheduling the runtime gives them: a goroutine that can run does run, a
\* process ends or is killed when the context of its Collect expires, and a
\* goroutine blocked in Lock gets the mutex if it is free again and again
\* (sync.Mutex hands a starving waiter the lock).
NextCollect ==
    \E p \in Procs :
        \/ CollectCall(p)
        \/ CollectLock(p)
        \/ RunStart(p)
        \/ ProcessExit(p)
        \/ DeadlineKill(p)
        \/ CollectReturn(p)

Fairness ==
    \A p \in Procs :
        /\ SF_vars(CollectLock(p))
        /\ WF_vars(RunStart(p))
        /\ WF_vars(ProcessExit(p) \/ DeadlineKill(p))
        /\ WF_vars(CollectReturn(p))

LiveSpec == Init /\ [][NextCollect]_vars /\ Fairness

\* ------------------------------------------------------ the Runner alone
\* The configurations of a Collector built by a caller of the collector
\* package, with no normalizer before it: ports inside and outside
\* [1, 65535], bitrates inside and outside the grammar, both protocols, both
\* directions, and a timeout that has expired before Run starts.
RunnerConfigs ==
    [Target : {"h"}, Port : {DefaultPort, 0, 70000}, Period : {DefaultPeriodMs},
     Timeout : {10000, 0}, ReverseMode : BOOLEAN, UDPMode : BOOLEAN,
     Bitrate : {<<>>, <<"1", "0", "X">>, <<"1", "0", "M">>}]

RunnerInit ==
    /\ pc = [p \in Procs |-> "idle"]
    /\ kind = [p \in Procs |-> "none"]
    /\ request = [p \in Procs |-> BaseRequest]
    /\ \E config \in RunnerConfigs :
           collectors = (SharedId :> NewCollectorWithRunner(config))
    /\ result = [p \in Procs |-> ZeroResult]
    /\ snapshot = [p \in Procs |-> <<>>]
    /\ status = [p \in Procs |-> 0]
    /\ IperfErrors = 0
    /\ IperfDuration = 0
    /\ runs = [p \in Procs |-> 0]
    /\ started = [p \in Procs |-> 0]
    /\ cmdline = [p \in Procs |-> <<>>]
    /\ deadlineHit = [p \in Procs |-> FALSE]
    /\ sconfig = [Timeout |-> ConfigTimeoutMs]
    /\ handler = [p \in Procs |-> "none"]
    /\ errors = [p \in Procs |-> <<>>]
    /\ output = [p \in Procs |-> NoOutput]
    /\ MainServing

\* Collect calls on a Collector of RunnerConfigs.
RunnerSpec == RunnerInit /\ [][NextCollect]_vars

\* ------------------------------------------------ the request normalizers
\* The configured timeouts (iperf3.timeout) of the Server: a Config built
\* without NewConfig (no timeout), the default, and one minute.
ServerTimeouts == {0, ConfigTimeoutMs, 2 * ConfigTimeoutMs}

\* The goroutines of a Server with configured timeout t are each about to
\* handle request r; the shared Collector is not used.
RequestsInit(r, t) ==
    /\ pc = [p \in Procs |-> "idle"]
    /\ kind = [p \in Procs |-> "none"]
    /\ request = [p \in Procs |-> r]
    /\ sconfig = [Timeout |-> t]
    /\ collectors =
         (SharedId :> NewCollectorWithRunner(
             [Target |-> "h", Port |-> DefaultPort, Period |-> DefaultPeriodMs,
              Timeout |-> 10000, ReverseMode |-> FALSE, UDPMode |-> FALSE,
              Bitrate |-> <<>>]))
    /\ result = [p \in Procs |-> ZeroResult]
    /\ snapshot = [p \in Procs |-> <<>>]
    /\ status = [p \in Procs |-> 0]
    /\ IperfErrors = 0
    /\ IperfDuration = 0
    /\ runs = [p \in Procs |-> 0]
    /\ started = [p \in Procs |-> 0]
    /\ cmdline = [p \in Procs |-> <<>>]
    /\ deadlineHit = [p \in Procs |-> FALSE]
    /\ handler = [p \in Procs |-> "none"]
    /\ errors = [p \in Procs |-> <<>>]
    /\ output = [p \in Procs |-> NoOutput]

\* A Server that listens, with configured timeout t, whose goroutines are
\* each about to handle request r.
ServerInit(r, t) == RequestsInit(r, t) /\ MainServing

\* Every request of AllRequests under every configured timeout.
NormalizerInit ==
    \E r \in AllRequests : \E t \in ServerTimeouts : ServerInit(r, t)

\* Fault: a rejected request is not counted in IperfErrors.
Serve_RejectionNotCounted(p, which, parsed) ==
    /\ kind' = [kind EXCEPT ![p] = "scrape"]
    /\ handler' = [handler EXCEPT ![p] = which]
    /\ errors' = [errors EXCEPT ![p] = parsed.errors]
    /\ IF parsed.status # 0
       THEN /\ status' = [status EXCEPT ![p] = parsed.status]
            /\ pc' = [pc EXCEPT ![p] = "done"]
            /\ UNCHANGED <<collectors, IperfErrors>>
       ELSE /\ collectors' =
                   collectors @@ (p :> NewCollectorWithRunner(parsed.config))
            /\ pc' = [pc EXCEPT ![p] = "start"]
            /\ UNCHANGED <<status, IperfErrors>>
    /\ UNCHANGED <<request, result, snapshot, IperfDuration, runs, started,
                   cmdline, deadlineHit, sconfig, output>>
    /\ UNCHANGED mainVars

\* A probeHandler from its entry to registry.MustRegister(c), on the request
\* of goroutine p: `which` names the handler and `parsed` is what it made of
\* the request.
Serve(p, which, parsed) ==
    /\ kind' = [kind EXCEPT ![p] = "scrape"]
    /\ handler' = [handler EXCEPT ![p] = which]
    /\ errors' = [errors EXCEPT ![p] = parsed.errors]
    /\ IF parsed.status # 0
       THEN /\ status' = [status EXCEPT ![p] = parsed.status]
            /\ IperfErrors' = IperfErrors + 1
            /\ pc' = [pc EXCEPT ![p] = "done"]
            /\ UNCHANGED collectors
       ELSE /\ collectors' =
                   collectors @@ (p :> NewCollectorWithRunner(parsed.config))
            /\ pc' = [pc EXCEPT ![p] = "start"]
            /\ UNCHANGED <<status, IperfErrors>>
    /\ UNCHANGED <<request, result, snapshot, IperfDuration, runs, started,
                   cmdline, deadlineHit, sconfig, output>>
    /\ UNCHANGED mainVars

\* The probeHandler that parses the request inline.
probeHandlerInline(p) ==
    /\ pc[p] = "idle"
    /\ Serve(p, "inline", probeHandlerParse(request[p], sconfig.Timeout))

\* The probeHandler that calls ParseProbeRequest.
probeHandlerParsed(p) ==
    /\ pc[p] = "idle"
    /\ Serve(p, "request", probeHandlerRequest(request[p]))

NormalizerNext ==
    \E p \in Procs :
        \/ probeHandlerInline(p)
        \/ probeHandlerParsed(p)

NormalizerSpec == NormalizerInit /\ [][NormalizerNext]_vars

\* ------------------------------------------- the handlers and their probes
\* The requests of ProbeSpec: the bare request, two rejected ones (no target,
\* a header that is no number), a period below one second and a timeout
\* hint of one second.
ProbeRequests ==
    { BaseRequest,
      [BaseRequest EXCEPT !.target = ""],
      [BaseRequest EXCEPT !.header = Str_abc],
      [BaseRequest EXCEPT !.period = <<"4", "0", "0", "m", "s">>],
      [BaseRequest EXCEPT !.header = <<"1">>] }

\* A Server with the default configured timeout whose goroutines are each
\* about to handle a request of ProbeRequests.
ProbeInit ==
    \E r \in ProbeRequests : ServerInit(r, ConfigTimeoutMs)

\* Either probeHandler, followed by the Collect of the Collector it built.
ProbeNext ==
    \E p \in Procs :
        \/ probeHandlerInline(p)
        \/ probeHandlerParsed(p)
        \/ CollectLock(p)
        \/ RunStart(p)
        \/ ProcessExit(p)
        \/ DeadlineKill(p)
        \/ CollectReturn(p)
        \/ probeHandlerFinish(p)

ProbeSpec == ProbeInit /\ [][ProbeNext]_vars

\* ------------------------------------------------------------------ main
\* main has built the Server (server.New) and started the shutdown goroutine,
\* and is about to call srv.Start; s.server is nil.
MainInit ==
    /\ \E r \in ProbeRequests : RequestsInit(r, ConfigTimeoutMs)
    /\ mainPc = "start"
    /\ sigPc = "wait"
    /\ httpServer = "nil"
    /\ done = FALSE
    /\ exit = NoExit

\* srv.Start up to the call of web.ListenAndServe: it builds the router and
\* assigns s.server.
StartSetup ==
    /\ exit = NoExit
    /\ mainPc = "start"
    /\ mainPc' = "listen"
    /\ httpServer' = "set"
    /\ UNCHANGED <<sigPc, done, exit>>
    /\ UNCHANGED probeVars

\* web.ListenAndServe opens the listener and serves.
StartListen ==
    /\ exit = NoExit
    /\ mainPc = "listen"
    /\ httpServer = "set"
    /\ mainPc' = "serve"
    /\ httpServer' = "listening"
    /\ UNCHANGED <<sigPc, done, exit>>
    /\ UNCHANGED probeVars

\* Shutdown was called on the http.Server: Serve returns http.ErrServerClosed
\* (at once when Shutdown came before it), web.ListenAndServe and srv.Start
\* return it, and main logs the error and calls os.Exit(1).
StartReturns ==
    /\ exit = NoExit
    /\ mainPc \in {"listen", "serve"}
    /\ httpServer = "closed"
    /\ mainPc' = "exited"
    /\ exit' = 1
    /\ UNCHANGED <<sigPc, httpServer, done>>
    /\ UNCHANGED probeVars

\* The shutdown goroutine receives SIGINT or SIGTERM from sigChan.
Signal ==
    /\ exit = NoExit
    /\ sigPc = "wait"
    /\ sigPc' = "stop"
    /\ UNCHANGED <<mainPc, httpServer, done, exit>>
    /\ UNCHANGED probeVars

\* What the shutdown goroutine can read from s.server, which Start writes
\* with no synchronisation: nil before the write, nil or the server after it.
serverSeen == IF httpServer = "nil" THEN {"nil"} ELSE {"nil", "server"}

\* srv.Stop calls s.server.Shutdown(ctx): on a nil s.server the goroutine
\* panics and the process dies with exit code 2; otherwise Shutdown closes
\* the listener and waits for the requests in flight.
StopCall ==
    /\ exit = NoExit
    /\ sigPc = "stop"
    /\ \E seen \in serverSeen :
         IF seen = "nil"
         THEN /\ sigPc' = "panicked"
              /\ mainPc' = "exited"
              /\ exit' = 2
              /\ UNCHANGED httpServer
         ELSE /\ sigPc' = "shutdown"
              /\ httpServer' = "closed"
              /\ UNCHANGED <<mainPc, exit>>
    /\ UNCHANGED done
    /\ UNCHANGED probeVars

\* Shutdown returns, when the requests in flight are answered or when its
\* context of 30 seconds expires; srv.Stop returns and the goroutine closes
\* done.
StopReturns ==
    /\ exit = NoExit
    /\ sigPc = "shutdown"
    /\ sigPc' = "returned"
    /\ done' = TRUE
    /\ UNCHANGED <<mainPc, httpServer, exit>>
    /\ UNCHANGED probeVars

\* The listening Server accepts a request and a probeHandler handles it.
Accept(p) ==
    /\ exit = NoExit
    /\ httpServer = "listening"
    /\ (probeHandlerInline(p) \/ probeHandlerParsed(p))

\* A request in flight goes on while the process lives.
InFlight(p) ==
    /\ exit = NoExit
    /\ \/ CollectLock(p)
       \/ RunStart(p)
       \/ ProcessExit(p)
       \/ DeadlineKill(p)
       \/ CollectReturn(p)
       \/ probeHandlerFinish(p)

MainNext ==
    \/ StartSetup
    \/ StartListen
    \/ StartReturns
    \/ Signal
    \/ StopCall
    \/ StopReturns
    \/ \E p \in Procs : Accept(p) \/ InFlight(p)

MainSpec == MainInit /\ [][MainNext]_vars

\* ------------------------------------------------ the bitrate validators
\* The characters of the bitrate parameters: a digit, the decimal point, a
\* unit letter, a letter that is no unit, the slash and the minus sign.
BitrateAlphabet == {"1", ".", "M", "X", "/", "-"}

\* Every string over the alphabet of at most MaxBitrateLen characters.
BitrateStrings ==
    UNION {[1..n -> BitrateAlphabet] : n \in 0..MaxBitrateLen}

\* A request for target h with every bitrate parameter of BitrateStrings.
BitrateInit ==
    \E b \in BitrateStrings :
        ServerInit([BaseRequest EXCEPT !.bitrate = b], ConfigTimeoutMs)

BitrateSpec == BitrateInit /\ [][NormalizerNext]_vars

\* ------------------------------------------------------------------ claims
\* The value of the metric `name` in a snapshot that holds it.
ValueOf(metrics, name) ==
    LET i == CHOOSE i \in DOMAIN metrics : metrics[i].name = name
    IN  metrics[i].value

\* Goroutine p is inside Collect with the mutex of its Collector held.
Holds(p) == pc[p] \in {"locked", "running", "ran"}

\* Goroutine p's Collect has returned.
Collected(p) == pc[p] \in {"collected", "done"} /\ snapshot[p] # <<>>

\* C1: on one Collector at most one goroutine is between the return of Lock
\* and the deferred Unlock, so at most one Run (and one external process) is
\* in flight per Collector at any time.
C1_OneRunPerCollector ==
    \A c \in DOMAIN collectors :
        /\ Cardinality({p \in Procs : Cid(p) = c /\ Holds(p)}) <= 1
        /\ \A p \in Procs : Cid(p) = c /\ Holds(p) => collectors[c].mutex = p

C1_Witness ==
    \E p, q \in Procs :
        /\ p # q
        /\ kind[p] = "direct" /\ pc[p] = "running"
        /\ kind[q] = "direct" /\ pc[q] = "start"

\* C2: two scrape requests for the same target that the probe handler
\* handles concurrently never have their external processes running at the
\* same time.
C2_OneProcessPerTarget ==
    \A p, q \in Procs :
        /\ p # q
        /\ kind[p] = "scrape" /\ kind[q] = "scrape"
        /\ pc[p] = "running" /\ pc[q] = "running"
        => collectors[p].target # collectors[q].target

\* C3: every Collect call started on the shared Collector eventually holds
\* the lock, runs its own probe once, sends a whole snapshot and returns; and
\* when every call has returned the lock is free.
C3_CollectsQueueAndComplete ==
    /\ \A p \in Procs :
          (pc[p] = "start") ~>
              (/\ pc[p] = "done"
               /\ runs[p] = 1
               /\ Range(CommonNames) \subseteq NamesOf(snapshot[p])
               /\ Len(snapshot[p]) >= Len(CommonNames) + 1)
    /\ []((\A p \in Procs : pc[p] \in {"idle", "done"})
            => collectors[SharedId].mutex = NoHolder)

C3_Witness ==
    /\ \A p \in Procs : pc[p] = "done" /\ kind[p] = "direct" /\ runs[p] = 1
    /\ collectors[SharedId].mutex = NoHolder

\* C4: a process that is still running when the context of its Collect
\* expires is killed: it does not stay in flight, Run returns a failure with
\* an error, and Collect sends a failure snapshot (up = 0) and returns.
C4_DeadlineEndsProbe ==
    /\ [](\A p \in Procs :
            deadlineHit[p] =>
                /\ pc[p] # "running"
                /\ ~result[p].Success
                /\ result[p].Error # Nil
                /\ (Collected(p) => ValueOf(snapshot[p], "iperf3_up") = 0))
    /\ \A p \in Procs : (pc[p] = "running") ~> (pc[p] = "done")

C4_Witness ==
    \E p \in Procs :
        /\ deadlineHit[p]
        /\ pc[p] = "done"
        /\ ValueOf(snapshot[p], "iperf3_up") = 0

\* A field of the request fails validation.
FieldInvalid(r) ==
    \/ r.target = ""
    \/ r.port # <<>> /\ ~Atoi(r.port).ok
    \/ r.reverse_mode # <<>> /\ ~ParseBool(r.reverse_mode).ok
    \/ r.bitrate # <<>> /\ ~bitratePatternMatch(r.bitrate)
    \/ r.period # <<>> /\ ~ParseDuration(r.period).ok

\* C5: a request with an invalid field is answered 400 with no Collector
\* built, no Run invoked and no process started.
C5_InvalidRequestNeverProbes ==
    \A p \in Procs :
        kind[p] = "scrape" /\ FieldInvalid(request[p]) =>
            /\ status[p] = StatusBadRequest
            /\ p \notin DOMAIN collectors
            /\ runs[p] = 0
            /\ started[p] = 0

C5_Witness ==
    \E p \in Procs :
        /\ kind[p] = "scrape"
        /\ request[p].target = ""
        /\ status[p] = StatusBadRequest
        /\ pc[p] = "done"

\* The step in which goroutine p's Collect sends its metrics.
C6_Step(p) ==
    pc[p] = "ran" /\ pc'[p] # "ran" =>
        IF result[p].Success
        THEN /\ ValueOf(snapshot'[p], "iperf3_up") = 1
             /\ IperfErrors' = IperfErrors
        ELSE /\ \A n \in Range(CommonNames) :
                    n \in NamesOf(snapshot'[p]) /\ ValueOf(snapshot'[p], n) = 0
             /\ IperfErrors' = IperfErrors + 1

\* C6: the step in which a Collect sends its metrics sends up = 0 and zero
\* sent/received seconds and bytes and adds exactly 1 to IperfErrors when the
\* Result is a failure, and sends up = 1 and leaves IperfErrors when it is a
\* success.
C6_FailureZeroFilledAndCounted == [][\A p \in Procs : C6_Step(p)]_vars

C6_Witness ==
    \E p, q \in Procs :
        /\ Collected(p) /\ ~result[p].Success /\ IperfErrors >= 1
        /\ Collected(q) /\ result[q].Success

\* C7: a request that passed validation is never answered with an error
\* status: whatever the probe's failure, it ends with status 200 and, when
\* the probe failed, a snapshot with up = 0.
C7_ProbeErrorsAbsorbed ==
    \A p \in Procs :
        kind[p] = "scrape" /\ p \in DOMAIN collectors =>
            /\ status[p] \in {0, StatusOK}
            /\ pc[p] = "done" =>
                  /\ status[p] = StatusOK
                  /\ ~result[p].Success => ValueOf(snapshot[p], "iperf3_up") = 0

C7_Witness ==
    \E p \in Procs :
        /\ kind[p] = "scrape" /\ pc[p] = "done"
        /\ result[p].Error = "iperf3 execution failed"
        /\ status[p] = StatusOK

\* C8: a Collect of a UDP-mode probe sends the eight UDP metrics and no
\* retransmits, a Collect of a TCP-mode probe sends retransmits and none of
\* the UDP metrics, on success and on failure alike.
C8_MetricsFollowProbeMode ==
    \A p \in Procs :
        Collected(p) =>
            LET names == NamesOf(snapshot[p])
            IN  IF collectors[Cid(p)].udpMode
                THEN Range(UDPNames) \subseteq names /\ names \cap Range(TCPNames) = {}
                ELSE Range(TCPNames) \subseteq names /\ names \cap Range(UDPNames) = {}

\* C9: two Collect cycles on the same Collector send the same set of metric
\* names, whatever their outcomes.
C9_SameNamesEveryCycle ==
    \A p, q \in Procs :
        Collected(p) /\ Collected(q) /\ Cid(p) = Cid(q) =>
            NamesOf(snapshot[p]) = NamesOf(snapshot[q])

\* C10: every Collector the probe handler builds has period < timeout.
C10_PeriodBelowTimeout ==
    \A p \in Procs :
        kind[p] = "scrape" /\ p \in DOMAIN collectors =>
            collectors[p].period < collectors[p].timeout

\* A probeHandler has handled the request of goroutine p.
Served(p) == handler[p] # "none"

\* The probeHandler built a Collector for the request of goroutine p.
Accepted(p) == Served(p) /\ p \in DOMAIN collectors

\* The period the request asks for: its period parameter, 5s when absent.
RequestedPeriod(r) ==
    IF r.period = <<>> THEN DefaultPeriodMs ELSE ParseDuration(r.period).val

\* The request has a period (given or default) of at least 100ms.
PeriodGiven(r) ==
    /\ r.period # <<>> => ParseDuration(r.period).ok
    /\ RequestedPeriod(r) >= DefaultValues.MinPeriod

\* C11: a request whose period parses is never answered with a period error,
\* whatever the timeout; the period handed to the Collector is exactly nine
\* tenths of the timeout handed to it when the requested period is at or
\* above that timeout, and the requested period otherwise.
C11_RescaleLaw ==
    \A p \in Procs :
        Served(p) /\ PeriodGiven(request[p]) =>
            /\ "period" \notin Range(errors[p])
            /\ Accepted(p) =>
                  LET c == collectors[p]
                  IN  IF RequestedPeriod(request[p]) >= c.timeout
                      THEN 10 * c.period = 9 * c.timeout
                      ELSE c.period = RequestedPeriod(request[p])

\* The value of the scrape-timeout header in milliseconds.
HeaderMs(r) == ParseFloat(r.header).val

\* The request carries a timeout hint (a hint of 0 seconds counts as none).
HeaderGiven(r) == r.header # <<>> /\ HeaderMs(r) # 0

\* The timeout before clamping: header, else configured, else 30 seconds.
HintedTimeout(r) ==
    IF HeaderGiven(r) THEN HeaderMs(r)
    ELSE IF sconfig.Timeout > 0 THEN sconfig.Timeout
    ELSE FallbackTimeoutMs

\* C12: the timeout handed to the Collector is the value of the
\* scrape-timeout header when the request has one, else the configured
\* timeout when one is configured, else 30 seconds.
C12_TimeoutResolutionOrder ==
    \A p \in Procs :
        Accepted(p) => collectors[p].timeout = HintedTimeout(request[p])

\* A duration clamped into [MinTimeout, MaxTimeout].
Clamp(t) ==
    IF t > DefaultValues.MaxTimeout THEN DefaultValues.MaxTimeout
    ELSE IF t < DefaultValues.MinTimeout THEN DefaultValues.MinTimeout
    ELSE t

\* C13: a timeout hint outside [1s, 300s] is not a reason to reject the
\* request; the timeout handed to the Collector lies in [1s, 300s], and is
\* the hint clamped into [1s, 300s] when the request carries a hint.
C13_TimeoutClamped ==
    \A p \in Procs :
        Served(p) =>
            /\ (request[p].header # <<>> /\ ParseFloat(request[p].header).ok)
                  => "timeout" \notin Range(errors[p])
            /\ Accepted(p) =>
                  /\ collectors[p].timeout >= DefaultValues.MinTimeout
                  /\ collectors[p].timeout <= DefaultValues.MaxTimeout
                  /\ HeaderGiven(request[p]) =>
                        collectors[p].timeout = Clamp(HeaderMs(request[p]))

\* The port parameter is absent or an integer of [1, 65535].
PortValid(r) ==
    r.port # <<>> =>
        /\ Atoi(r.port).ok
        /\ Atoi(r.port).val >= 1
        /\ Atoi(r.port).val <= 65535

\* The field of the request is invalid: a missing target, a port that is no
\* integer of [1, 65535], an unparseable period, a non-boolean reverse_mode
\* or udp_mode, a bitrate outside the grammar of iperf3 (bitratePattern).
FieldBad(r, field) ==
    CASE field = "target" -> r.target = ""
      [] field = "port" -> ~PortValid(r)
      [] field = "period" -> r.period # <<>> /\ ~ParseDuration(r.period).ok
      [] field = "reverse_mode" ->
            r.reverse_mode # <<>> /\ ~ParseBool(r.reverse_mode).ok
      [] field = "udp_mode" -> r.udp_mode # <<>> /\ ~ParseBool(r.udp_mode).ok
      [] field = "bitrate" -> r.bitrate # <<>> /\ ~bitratePatternMatch(r.bitrate)

QueryFields == {"target", "port", "period", "reverse_mode", "udp_mode", "bitrate"}

\* Every query parameter but `except` is valid, for both bitrate validators.
OthersValid(r, except) ==
    /\ \A f \in QueryFields \ except : ~FieldBad(r, f)
    /\ "bitrate" \notin except => validationValidateBitrate(r.bitrate) = <<>>

\* C14: a request whose query parameters are valid and whose scrape-timeout
\* header does not parse as a float is answered 500, not 400; no Collector
\* is built and Run is not invoked.
C14_BadTimeoutHeaderIsServerError ==
    \A p \in Procs :
        /\ Served(p)
        /\ OthersValid(request[p], {})
        /\ request[p].header # <<>>
        /\ ~ParseFloat(request[p].header).ok
        => /\ status[p] = StatusInternalServerError
           /\ ~Accepted(p)
           /\ runs[p] = 0

\* C15: the error a probeHandler answers with has an entry for every
\* invalid field of the request.
C15_FieldErrorsAggregated ==
    \A p \in Procs :
        Served(p) =>
            \A f \in QueryFields :
                FieldBad(request[p], f) => f \in Range(errors[p])

\* C17: without a port parameter the Collector gets port 5201; with a port
\* of [1, 65535] it gets that port; a request with any other port gets no
\* Collector, and a port error when the port is its only invalid field.
C17_PortHandling ==
    \A p \in Procs :
        Served(p) =>
            LET r == request[p]
            IN  IF PortValid(r)
                THEN /\ "port" \notin Range(errors[p])
                     /\ Accepted(p) =>
                           collectors[p].port =
                             IF r.port = <<>> THEN DefaultPort ELSE Atoi(r.port).val
                ELSE /\ ~Accepted(p)
                     /\ OthersValid(r, {"port"}) => "port" \in Range(errors[p])

\* C18: with the other fields valid, udp_mode=true gives a Collector in UDP
\* mode whose command has the -u flag, no udp_mode gives one in TCP mode, and
\* a udp_mode that is no boolean gives a udp_mode error and no Collector.
C18_UDPModeParameter ==
    \A p \in Procs :
        /\ Served(p)
        /\ OthersValid(request[p], {"udp_mode"})
        /\ request[p].header = <<>>
        => LET r == request[p]
           IN  IF r.udp_mode = <<>>
               THEN Accepted(p) /\ ~collectors[p].udpMode
               ELSE IF ParseBool(r.udp_mode).ok
               THEN /\ Accepted(p)
                    /\ collectors[p].udpMode = ParseBool(r.udp_mode).val
                    /\ ParseBool(r.udp_mode).val =>
                          <<"-u">> \in Range(iperfArgs(RunConfig(collectors[p])))
               ELSE ~Accepted(p) /\ "udp_mode" \in Range(errors[p])

\* A non-empty string of digits.
IsCount(s) == s # <<>> /\ AllDigits(s)

\* An integer or decimal magnitude.
IsMagnitude(s) ==
    \/ IsCount(s)
    \/ \E k \in 1..Len(s) :
          /\ s[k] = "."
          /\ IsCount(SubSeq(s, 1, k - 1))
          /\ IsCount(SubSeq(s, k + 1, Len(s)))

\* The bitrate grammar: a magnitude, an optional unit letter K, M or G, and
\* an optional slash followed by a packet count.
InGrammar(s) ==
    \E i, j \in 0..Len(s) :
        /\ i <= j
        /\ IsMagnitude(SubSeq(s, 1, i))
        /\ SubSeq(s, i + 1, j) \in {<<>>, <<"K">>, <<"M">>, <<"G">>}
        /\ \/ j = Len(s)
           \/ s[j + 1] = "/" /\ IsCount(SubSeq(s, j + 2, Len(s)))

\* C16: a probeHandler reports a bitrate error exactly for the non-empty
\* bitrate parameters outside the grammar, whichever validator it calls, and
\* the Runner accepts the bitrate of every Collector a handler built.
C16_BitrateValidatorsAgree ==
    \A p \in Procs :
        Served(p) =>
            LET b == request[p].bitrate
            IN  /\ ("bitrate" \in Range(errors[p])) = (b # <<>> /\ ~InGrammar(b))
                /\ Accepted(p) => ~bitrateInvalid(RunConfig(collectors[p]))

\* C19: every metric of every snapshot has exactly the labels target and
\* port; target is the Collector's target and port reads, as a decimal
\* number, as the Collector's port, on success and on failure.
C19_TargetAndPortLabels ==
    \A p \in Procs :
        Collected(p) =>
            \A i \in DOMAIN snapshot[p] :
                LET labels == snapshot[p][i].labels
                IN  /\ DOMAIN labels = {"target", "port"}
                    /\ labels.target = collectors[Cid(p)].target
                    /\ Atoi(labels.port).ok
                    /\ Atoi(labels.port).val = collectors[Cid(p)].port

C19_Witness ==
    \E p, q \in Procs :
        /\ Collected(p) /\ result[p].Success
        /\ collectors[Cid(p)].port = 8080
        /\ snapshot[p][1].labels.port = <<"8", "0", "8", "0">>
        /\ Collected(q) /\ ~result[q].Success

\* C20: a Collect sends as many metrics as Describe sends descriptors, on
\* success and on failure, and every metric it sends has a descriptor that
\* Describe sent.
C20_DescribeAndCollectAgree ==
    \A p \in Procs :
        Collected(p) =>
            LET c == collectors[Cid(p)]
            IN  /\ Len(snapshot[p]) = Len(Describe(c))
                /\ NamesOf(snapshot[p]) \subseteq Range(Describe(c))

\* ------------------------------------------------------ claims: the Runner
\* The Run of goroutine p's Collect has returned.
Returned(p) == pc[p] \in {"ran", "collected", "done"} /\ runs[p] >= 1

\* The configuration goroutine p's Collect passes to Run.
ConfigOf(p) == RunConfig(collectors[Cid(p)])

\* The observations of a Result.
ObservationFields ==
    {"SentSeconds", "SentBytes", "SentBitsPerSecond", "ReceivedSeconds",
     "ReceivedBytes", "ReceivedBitsPerSecond", "Retransmits", "SentPackets",
     "SentJitter", "SentLostPackets", "SentLostPercent", "ReceivedPackets",
     "ReceivedJitter", "ReceivedLostPackets", "ReceivedLostPercent"}

\* Run reached the mapping of a parsed report: the bitrate passed, Output
\* returned no error and its bytes are a JSON report.
ReportParsed(p) ==
    /\ ~bitrateInvalid(ConfigOf(p))
    /\ output[p].err = Nil
    /\ output[p].json

PortInRange(cfg) == cfg.Port >= 1 /\ cfg.Port <= 65535

\* C22: a Run with a bitrate outside the grammar or a port outside
\* [1, 65535] starts no process and returns a failure with an Error.
C22_RunValidatesItsConfig ==
    \A p \in Procs :
        runs[p] >= 1 /\ (bitrateInvalid(ConfigOf(p)) \/ ~PortInRange(ConfigOf(p))) =>
            /\ started[p] = 0
            /\ pc[p] # "running"
            /\ ~result[p].Success
            /\ result[p].Error # Nil

\* The arguments of a command line after the seven leading ones
\* (-J -t period -c target -p port).
Flags(args) == SubSeq(args, 8, Len(args))

\* The positions of a flag among the flags.
FlagAt(args, flag) == {i \in 1..Len(Flags(args)) : Flags(args)[i] = flag}

\* C23: the arguments of every command Run built hold -u iff the
\* configuration is in UDP mode and -R iff it is in reverse mode; in UDP mode
\* exactly one -b, followed by the configured bitrate or by 1M when none is
\* configured; in TCP mode one -b followed by the configured bitrate when one
\* is configured, and no -b otherwise.
C23_ArgumentConstruction ==
    \A p \in Procs :
        cmdline[p] # <<>> =>
            LET cfg  == ConfigOf(p)
                args == cmdline[p]
                b    == FlagAt(args, <<"-b">>)
                want == IF cfg.Bitrate # <<>> THEN cfg.Bitrate ELSE <<"1", "M">>
            IN  /\ Cardinality(FlagAt(args, <<"-u">>)) = (IF cfg.UDPMode THEN 1 ELSE 0)
                /\ Cardinality(FlagAt(args, <<"-R">>)) = (IF cfg.ReverseMode THEN 1 ELSE 0)
                /\ Cardinality(b) = (IF cfg.UDPMode \/ cfg.Bitrate # <<>> THEN 1 ELSE 0)
                /\ \A i \in b : i < Len(Flags(args)) /\ Flags(args)[i + 1] = want

C23_Witness ==
    \E p \in Procs :
        /\ started[p] = 1
        /\ ConfigOf(p).UDPMode /\ ConfigOf(p).ReverseMode
        /\ ConfigOf(p).Bitrate = <<>>
        /\ Flags(cmdline[p]) = << <<"-R">>, <<"-u">>, <<"-b">>, <<"1", "M">> >>

\* The number of goroutines in a set that called Collect.
RECURSIVE SumOver(_, _)
SumOver(f, S) ==
    IF S = {} THEN 0
    ELSE LET x == CHOOSE x \in S : TRUE IN f[x] + SumOver(f, S \ {x})

C25_ProtocolAwareMapping ==
    \A p \in Procs :
        Returned(p) /\ ReportParsed(p) =>
            LET res == result[p]
                raw == output[p].raw
            IN  IF ~ConfigOf(p).UDPMode
                THEN /\ res.SentSeconds = raw.SumSent.Seconds
                     /\ res.SentBytes = raw.SumSent.Bytes
                     /\ res.SentBitsPerSecond = raw.SumSent.BitsPerSecond
                     /\ res.Retransmits = raw.SumSent.Retransmits
                     /\ res.ReceivedSeconds = raw.SumReceived.Seconds
                     /\ res.ReceivedBytes = raw.SumReceived.Bytes
                     /\ res.ReceivedBitsPerSecond = raw.SumReceived.BitsPerSecond
                     /\ res.SentPackets = 0 /\ res.SentJitter = 0
                     /\ res.SentLostPackets = 0 /\ res.SentLostPercent = 0
                     /\ res.ReceivedPackets = 0 /\ res.ReceivedJitter = 0
                     /\ res.ReceivedLostPackets = 0 /\ res.ReceivedLostPercent = 0
                ELSE /\ Len(raw.Streams) > 0 =>
                          /\ res.SentSeconds = raw.Streams[1].UDP.Seconds
                          /\ res.SentBytes = raw.Streams[1].UDP.Bytes
                          /\ res.SentBitsPerSecond = raw.Streams[1].UDP.BitsPerSecond
                          /\ res.SentPackets = raw.Streams[1].UDP.Packets
                          /\ res.SentJitter = raw.Streams[1].UDP.JitterMs
                          /\ res.SentLostPackets = raw.Streams[1].UDP.LostPackets
                          /\ res.SentLostPercent = raw.Streams[1].UDP.LostPercent
                     /\ res.ReceivedSeconds = raw.Sum.Seconds
                     /\ res.ReceivedBytes = raw.Sum.Bytes
                     /\ res.ReceivedBitsPerSecond = raw.Sum.BitsPerSecond
                     /\ res.ReceivedPackets = raw.Sum.Packets
                     /\ res.ReceivedJitter = raw.Sum.JitterMs
                     /\ res.ReceivedLostPackets = raw.Sum.LostPackets
                     /\ res.ReceivedLostPercent = raw.Sum.LostPercent
                     /\ res.Retransmits = 0

C25_Witness ==
    \E p \in Procs :
        /\ Returned(p) /\ ReportParsed(p) /\ ConfigOf(p).UDPMode
        /\ output[p].raw = ReportFull
        /\ result[p].SentBytes = StreamUDP.Bytes
        /\ result[p].ReceivedBytes = SumUDP.Bytes

\* The sender fields of a UDP Result.
SenderFields ==
    {"SentSeconds", "SentBytes", "SentBitsPerSecond", "SentPackets",
     "SentJitter", "SentLostPackets", "SentLostPercent"}

\* C26: a UDP-mode Run whose report parsed returns Success whatever the
\* report lacks: with an empty streams list every sender field of the Result
\* is 0, and with receiver bits-per-second and bytes both non-positive the
\* receiver fields are those of end.sum as read.
C26_PartialUDPDataIsNoFailure ==
    \A p \in Procs :
        Returned(p) /\ ReportParsed(p) /\ ConfigOf(p).UDPMode =>
            LET res == result[p]
                raw == output[p].raw
            IN  /\ res.Success /\ res.Error = Nil
                /\ Len(raw.Streams) = 0 => \A f \in SenderFields : res[f] = 0
                /\ raw.Sum.BitsPerSecond <= 0 /\ raw.Sum.Bytes <= 0 =>
                      /\ res.ReceivedBitsPerSecond = raw.Sum.BitsPerSecond
                      /\ res.ReceivedBytes = raw.Sum.Bytes
                      /\ res.ReceivedSeconds = raw.Sum.Seconds
                      /\ res.ReceivedPackets = raw.Sum.Packets

C26_Witness ==
    \E p, q \in Procs :
        /\ Returned(p) /\ ConfigOf(p).UDPMode /\ result[p].Success
        /\ output[p].raw = ReportEmptyStreams /\ result[p].ReceivedBytes > 0
        /\ Returned(q) /\ result[q].Success
        /\ output[q].raw = ReportNoReceiver /\ result[q].SentBytes > 0

\* C27: the UDPMode of every Result Run returns, on success and on every
\* failure, is the UDPMode of the configuration Run was called with.
C27_ResultKeepsUDPMode ==
    \A p \in Procs :
        Returned(p) => result[p].UDPMode = ConfigOf(p).UDPMode

\* ------------------------------------------- claims: handlers and probes
\* The duration argument (the value after -t) of a command line.
DurationArg(args) == Atoi(args[3]).val

\* C28: every external process started for a request a probeHandler
\* accepted has a duration argument of at least 1.
C28_DurationAtLeastOne ==
    \A p \in Procs :
        Accepted(p) /\ started[p] >= 1 => DurationArg(cmdline[p]) >= 1

\* The goroutines whose request was rejected by a probeHandler.
RejectedProcs == {p \in Procs : Served(p) /\ ~Accepted(p)}

\* The goroutines whose request was accepted and whose Collect returned a
\* failure snapshot.
FailedProcs ==
    {p \in Procs : Accepted(p) /\ Collected(p) /\ ~result[p].Success}

\* The goroutines whose accepted request was answered.
AnsweredProcs == {p \in Procs : Accepted(p) /\ pc[p] = "done"}

\* C30: IperfErrors counts one for every request rejected before probing and
\* one for every accepted request whose probe failed, and nothing else;
\* IperfDuration holds one observation for every accepted request that was
\* answered, made after its Collect returned, and none for a rejected one.
C30_SelfObservabilityAccounting ==
    /\ IperfErrors = Cardinality(RejectedProcs) + Cardinality(FailedProcs)
    /\ IperfDuration = Cardinality(AnsweredProcs)
    /\ \A p \in AnsweredProcs : Collected(p) /\ runs[p] = 1

C30_Witness ==
    \E p, q \in Procs :
        /\ handler[p] = "request" /\ p \in RejectedProcs
        /\ handler[q] = "inline" /\ q \in AnsweredProcs /\ q \in FailedProcs
        /\ IperfErrors = 2
        /\ IperfDuration = 1

\* --------------------------------------------------------- claims: main
\* C29: once the shutdown goroutine has received its signal the process
\* does not exit before the goroutine returned from srv.Stop and closed
\* done, and srv.Stop is never called while s.server is nil.
C29_GracefulShutdownOrdering ==
    /\ sigPc # "wait" /\ exit # NoExit => done /\ sigPc = "returned"
    /\ sigPc # "panicked"

====
